---- MODULE Spec2Model ----
(***************************************************************************)
(* The MindCalls dashboard client (React): the session store, the API      *)
(* gateway client (apiCall), the top-level coordinator (App) with its      *)
(* four-way fetch batch, the login page (LandingPage), the transcript     *)
(* editor (EnhancedInterviewReaderWidget / SegmentDisplay), the chat       *)
(* widget (ChatWidget) and the ErrorBoundary around the dashboard.         *)
(*                                                                         *)
(* JavaScript runs one handler at a time; a handler runs until its next    *)
(* await.  Every action below is one such run: a user event, or the        *)
(* arrival of one HTTP response together with the continuation of the      *)
(* async functions that were waiting for it, and the React effects that    *)
(* the state change triggers.                                              *)
(***************************************************************************)
EXTENDS Integers, Sequences, FiniteSets, TLC

VARIABLES
  storage,        \* localStorage: access_token, user_email, access_level
  app,            \* the useState cells of App, and the number of its refresh intervals
  batches,        \* the fetchAllData calls that still have a request in flight
  landing,        \* the useState cells of LandingPage (while it is mounted)
  reloadPending,  \* window.location.reload() was called, the page is not yet replaced
  sinceReload,    \* the handler runs since reload() was first called on this page
  widget,         \* the useState cells of EnhancedInterviewReaderWidget
  panels,         \* the useState cells of the mounted SegmentDisplays
  tasks,          \* the widget's requests in flight
  server,         \* the interviews as the remote service holds them
  saves,          \* the edit and tag saves issued since the page was loaded
  chat,           \* the useState cells of ChatWidget
  chatCalls,      \* the chat requests in flight
  hasError,       \* the state of the ErrorBoundary around the dashboard
  batchCalls,     \* the fetchAllData calls made since the page was loaded
  apiRuns,        \* the runs of apiCall that ApiSpec has sent and that wait for their response
  lastCall        \* the last run of apiCall that ApiSpec has seen complete

vars == <<storage, app, batches, landing, reloadPending, sinceReload, widget, panels, tasks, server, saves,
          chat, chatCalls, hasError, batchCalls, apiRuns, lastCall>>

(***************************************************************************)
(* Bounds of the model.                                                    *)
(***************************************************************************)
MaxBatches == 1      \* fetchAllData calls with a request in flight at once
MaxTasks == 2        \* widget requests in flight at once
MaxSaves == 1        \* edit and tag saves per page load, and the form inputs that precede them
MaxOverlap == 2      \* fetchAllData calls in flight at once where OverlapSpec lets them overlap
MaxQuestions == 2    \* questions sent to the chat per lifetime of the ChatWidget
MaxForms == 1        \* tagging forms that hold a value in one of their fields, at once
MaxSinceReload == 1  \* handler runs between the call of reload() and the new page
MaxCalls == 2        \* fetchAllData calls per page load
MaxRuns == 2         \* runs of apiCall in flight at once in ApiSpec

(***************************************************************************)
(* JavaScript values.  Strings are TLA+ strings; null and undefined are    *)
(* the two sentinels below.  Response bodies and the dashboard data are    *)
(* records tagged with t.                                                  *)
(***************************************************************************)
Null == "<null>"
Undefined == "<undefined>"

\* ToBoolean on string-or-null values: null, undefined and "" are falsy.
Truthy(v) == v \notin {Null, Undefined, ""}

\* a || b
Or(a, b) == IF Truthy(a) THEN a ELSE b

\* String(v), as localStorage.setItem applies it to its value.
JsString(v) == IF v = Undefined THEN "undefined" ELSE IF v = Null THEN "null" ELSE v

\* String.prototype.includes
Includes(s, w) == \E i \in 1..(Len(s) - Len(w) + 1) : SubSeq(s, i, i + Len(w) - 1) = w

JsNull == [t |-> "null"]
JsUndefined == [t |-> "undefined"]
EmptyData == [t |-> "empty"]          \* the initial [] and {}
DataTruthy(d) == d.t \notin {"null", "undefined"}

(***************************************************************************)
(* Session store.                                                          *)
(***************************************************************************)
EmptyStorage == [access_token |-> Null, user_email |-> Null, access_level |-> Null]

getStoredToken(st) == st.access_token

getStoredUser(st) == [email |-> st.user_email, accessLevel |-> st.access_level]

\* A clearStoredAuth that removes the token and leaves the other two keys.
clearStoredAuth_TokenOnly(st) == [st EXCEPT !.access_token = Null]

\* The three removeItem calls.
clearStoredAuth(st) == EmptyStorage

\* The three setItem calls of a successful login.
StoreLogin(st, data) ==
  [access_token |-> JsString(data.access_token),
   user_email   |-> JsString(data.email),
   access_level |-> JsString(data.access_level)]

\* user === null: user?.email and user?.accessLevel are undefined.
NoUser == [email |-> Undefined, accessLevel |-> Undefined]

\* The bodies auth/login answers a successful login with.
LoginResponses ==
  { [access_token |-> "tok1", email |-> "a@b.dk", access_level |-> "Premium"],
    [access_token |-> "tok2", email |-> "c@d.dk", access_level |-> "Standard"] }

(***************************************************************************)
(* API gateway client.  A response is one of four outcomes.                *)
(***************************************************************************)
Outcomes == {"ok", "network", "non2xx", "401"}

\* What apiCall does with a response: it returns the body, returns
\* without a value (401, after clearStoredAuth and reload), or throws.
apiCall(outcome) ==
  CASE outcome = "ok"  -> "data"
    [] outcome = "401" -> "undefined"
    [] OTHER           -> "throw"

\* localStorage after apiCall has handled the response.
apiCallStorage(st, outcome) == IF outcome = "401" THEN clearStoredAuth(st) ELSE st

\* Whether apiCall has called window.location.reload().
apiCallReload(outcome) == outcome = "401"

(***************************************************************************)
(* One run of apiCall in detail: the request it sends, the response fetch  *)
(* resolves with (or its rejection), and what the run returns or throws.   *)
(***************************************************************************)
Statuses == {200, 201, 401, 404, 500}

StatusText(status) ==
  CASE status = 200 -> "OK"
    [] status = 201 -> "Created"
    [] status = 401 -> "Unauthorized"
    [] status = 404 -> "Not Found"
    [] OTHER        -> "Internal Server Error"

\* Response bodies: two that are JSON, one that is not.
Bodies == {"{}", "{\"detail\":\"x\"}", "oops"}

IsJson(body) == body \in {"{}", "{\"detail\":\"x\"}"}

\* response.json() of a body that is JSON.
Decoded(body) == [t |-> "json", text |-> body]

\* fetch rejected: no response.
FetchRejected == [received |-> FALSE, status |-> 0, body |-> ""]

Responses ==
  {[received |-> TRUE, status |-> s, body |-> b] : s \in Statuses, b \in Bodies}
    \cup {FetchRejected}

\* response.ok
ResponseOk(resp) == resp.status \in 200..299

\* The outcome a response counts as.
OutcomeOf(resp) ==
  IF ~resp.received THEN "network"
  ELSE IF resp.status = 401 THEN "401"
  ELSE IF ~ResponseOk(resp) THEN "non2xx"
  ELSE IF IsJson(resp.body) THEN "ok" ELSE "network"

\* An error message that leaves the body text out.
ErrorMessage_WithoutBody(resp) ==
  "API Error: " \o ToString(resp.status) \o " - " \o StatusText(resp.status)

\* `API Error: ${response.status} - ${response.statusText} - ${errorText}`
ErrorMessage(resp) ==
  "API Error: " \o ToString(resp.status) \o " - " \o StatusText(resp.status)
     \o " - " \o resp.body

\* The Authorization header: set only when a token is stored.
Authorization(st) ==
  IF Truthy(getStoredToken(st)) THEN "Bearer " \o getStoredToken(st) ELSE Undefined

NoCall ==
  [endpoint |-> "", authorization |-> Undefined, fetches |-> 0, status |-> 0, body |-> "",
   result |-> "none", value |-> JsNull, message |-> ""]

\* apiCall(endpoint) up to its await of fetch: the token is read and the
\* request is sent with it.
apiCallSent(st, endpoint) ==
  [NoCall EXCEPT !.endpoint = endpoint, !.authorization = Authorization(st), !.fetches = 1]

\* The rest of the run run, whose fetch is answered with resp.
apiCallRun(run, resp) ==
  LET sent == [run EXCEPT !.status = resp.status, !.body = resp.body]
  IN CASE ~resp.received ->
            [sent EXCEPT !.result = "throw", !.message = "Failed to fetch"]
       [] resp.status = 401 ->
            [sent EXCEPT !.result = "return", !.value = JsUndefined]
       [] ~ResponseOk(resp) ->
            [sent EXCEPT !.result = "throw", !.message = ErrorMessage(resp)]
       [] ~IsJson(resp.body) ->
            [sent EXCEPT !.result = "throw", !.message = "Unexpected token"]
       [] OTHER ->
            [sent EXCEPT !.result = "return", !.value = Decoded(resp.body)]

\* The endpoints the application calls.
ApiEndpoints ==
  {"overview", "themes", "ratings", "interviews", "themes/available", "interview/int-1",
   "interview/edit", "interview/tag"}

(***************************************************************************)
(* Top-level coordinator.                                                  *)
(***************************************************************************)
BatchEndpoints == <<"overview", "themes", "ratings", "interviews">>
EndpointSet == {BatchEndpoints[i] : i \in 1..Len(BatchEndpoints)}

FetchError == "Kunne ikke indlaese dashboard data. Tjek din internetforbindelse."

\* A batch also carries the order of the calls: after holds the calls that
\* were waiting on their Promise.all when this one was issued, overtaken
\* says that a call issued later has applied its data in the meantime.
FreeBatch == [st |-> "free", showLoading |-> FALSE, token |-> Null,
              res |-> [e \in EndpointSet |-> "none"], after |-> {}, overtaken |-> FALSE]

HasFree(bs) == \E b \in DOMAIN bs : bs[b].st = "free"
FirstFree(bs) == CHOOSE b \in DOMAIN bs : bs[b].st = "free" /\ \A c \in DOMAIN bs : bs[c].st = "free" => b <= c

\* useState initial values of App, before the mount effect.
AppInitial ==
  [isAuthenticated |-> FALSE, user |-> NoUser, overview |-> JsNull,
   themes |-> EmptyData, ratings |-> EmptyData, interviews |-> EmptyData,
   isLoading |-> TRUE, error |-> Null, interval |-> 0]

\* fetchAllData up to its await: the loading flag, the error, the four requests.
fetchAllData(a, bs, st, showLoading) ==
  LET n == FirstFree(bs)
  IN [app |-> [a EXCEPT !.isLoading = IF showLoading THEN TRUE ELSE @,
                        !.error = Null],
      batches |-> [bs EXCEPT ![n] = [st |-> "open", showLoading |-> showLoading,
                                     token |-> getStoredToken(st),
                                     res |-> [e \in EndpointSet |-> "pending"],
                                     after |-> {c \in DOMAIN bs : bs[c].st = "open"},
                                     overtaken |-> FALSE]]]

\* The effect without its fetch: only the interval follows isAuthenticated.
AuthEffect_IntervalOnly(a, bs, st, was) ==
  IF a.isAuthenticated = was THEN [app |-> a, batches |-> bs]
  ELSE [app |-> [a EXCEPT !.interval = IF a.isAuthenticated THEN 1 ELSE 0], batches |-> bs]

\* The effect whose body returns no cleanup: an interval, once set, stays.
AuthEffect_NoCleanup(a, bs, st, was) ==
  IF a.isAuthenticated = was THEN [app |-> a, batches |-> bs]
  ELSE IF a.isAuthenticated
       THEN LET f == fetchAllData(a, bs, st, TRUE)
            IN [app |-> [f.app EXCEPT !.interval = @ + 1], batches |-> f.batches]
       ELSE [app |-> a, batches |-> bs]

\* The effect on [isAuthenticated, fetchAllData]: the cleanup of its last
\* run clears the interval that run had set, its body fetches and sets an
\* interval while authenticated.
AuthEffect(a, bs, st, was) ==
  IF a.isAuthenticated = was THEN [app |-> a, batches |-> bs]
  ELSE LET cleaned == [a EXCEPT !.interval = IF was THEN @ - 1 ELSE @]
       IN IF a.isAuthenticated
          THEN LET f == fetchAllData(cleaned, bs, st, TRUE)
               IN [app |-> [f.app EXCEPT !.interval = @ + 1], batches |-> f.batches]
          ELSE [app |-> cleaned, batches |-> bs]

\* The fetchAllData calls of a page that has just been loaded.
Started(bs) == Cardinality({b \in DOMAIN bs : bs[b].st = "open"})

\* The mount effect of App followed by the effect it triggers; n bounds the
\* fetchAllData calls the page can have in flight.
MountIn(st, n) ==
  LET token == getStoredToken(st)
      storedUser == getStoredUser(st)
      a == IF Truthy(token) /\ Truthy(storedUser.email)
           THEN [AppInitial EXCEPT !.isAuthenticated = TRUE, !.user = storedUser,
                                   !.isLoading = FALSE]
           ELSE [AppInitial EXCEPT !.isLoading = FALSE]
  IN AuthEffect(a, [b \in 1..n |-> FreeBatch], st, FALSE)

Mount(st) == MountIn(st, MaxBatches)

handleLogin(a, loginData) ==
  [a EXCEPT !.isAuthenticated = TRUE,
            !.user = [email |-> loginData.email, accessLevel |-> loginData.access_level]]

handleLogout(a) ==
  [a EXCEPT !.isAuthenticated = FALSE, !.user = NoUser, !.overview = JsNull,
            !.themes = EmptyData, !.ratings = EmptyData, !.interviews = EmptyData]

\* What the App renders.
LoadingView(a) == a.isLoading /\ ~a.isAuthenticated
LandingView(a) == ~LoadingView(a) /\ ~a.isAuthenticated
ErrorView(a) == a.isAuthenticated /\ Truthy(a.error) /\ ~DataTruthy(a.overview)
DashboardView(a) == a.isAuthenticated /\ ~ErrorView(a)

\* The ErrorBoundary renders its children, the dashboard, unless a render
\* of one of them has thrown.
ChildrenShown(a, h) == DashboardView(a) /\ ~h

ResponseData(b, e) == [t |-> "data", batch |-> b, endpoint |-> e]

\* The value apiCall resolved to for endpoint e of batch b.
Resolved(bt, b, e) == IF bt.res[e] = "ok" THEN ResponseData(b, e) ELSE JsUndefined

\* A catch block that only logs.
CatchFinally_LogsOnly(a, bt) ==
  [a EXCEPT !.isLoading = IF bt.showLoading THEN FALSE ELSE @]

\* catch: setError(...); finally: if (showLoading) setIsLoading(false)
CatchFinally(a, bt) ==
  [a EXCEPT !.error = FetchError,
            !.isLoading = IF bt.showLoading THEN FALSE ELSE @]

\* The four setters after Promise.all resolved.  themesData.themes,
\* ratingsData.ratings and interviewsData.interviews throw a TypeError
\* when the value is undefined, which ends in the catch block.
ApplyResponses(a, bt, b) ==
  LET a1 == [a EXCEPT !.overview = Resolved(bt, b, "overview")]
      a2 == [a1 EXCEPT !.themes = Resolved(bt, b, "themes")]
      a3 == [a2 EXCEPT !.ratings = Resolved(bt, b, "ratings")]
      a4 == [a3 EXCEPT !.interviews = Resolved(bt, b, "interviews")]
  IN CASE bt.res["themes"] = "undef"     -> CatchFinally(a1, bt)
       [] bt.res["ratings"] = "undef"    -> CatchFinally(a2, bt)
       [] bt.res["interviews"] = "undef" -> CatchFinally(a3, bt)
       [] OTHER -> [a4 EXCEPT !.isLoading = IF bt.showLoading THEN FALSE ELSE @]

\* A batch whose fetchAllData has returned: only what is still in flight matters.
Finished(bt) ==
  IF \A e \in EndpointSet : bt.res[e] # "pending" THEN FreeBatch
  ELSE [bt EXCEPT !.st = "done", !.after = {}, !.overtaken = FALSE,
                  !.res = [e \in EndpointSet |-> IF bt.res[e] = "pending" THEN "pending" ELSE "settled"]]

\* Promise.all: rejected by the first rejection, resolved by the last resolution.
PromiseAll(a, bt, b, e, outcome) ==
  LET r == apiCall(outcome)
      got == [bt EXCEPT !.res[e] = CASE r = "data" -> "ok"
                                     [] r = "undefined" -> "undef"
                                     [] OTHER -> "fail"]
  IN IF bt.st = "done" THEN [app |-> a, batch |-> Finished(got)]
     ELSE IF r = "throw" THEN [app |-> CatchFinally(a, bt), batch |-> Finished(got)]
     ELSE IF \A x \in EndpointSet : got.res[x] # "pending"
          THEN [app |-> ApplyResponses(a, got, b), batch |-> Finished(got)]
          ELSE [app |-> a, batch |-> got]

\* This response resolves the Promise.all of bt with four bodies, so that
\* all four data setters run.
Applied(bt, e, outcome) ==
  /\ bt.st = "open"
  /\ apiCall(outcome) = "data"
  /\ \A x \in EndpointSet \ {e} : bt.res[x] = "ok"

\* The order of the calls after call b, which was bt, has taken a response:
\* the calls issued before b are overtaken when b applied its data, and b
\* is no longer waiting once its fetchAllData has returned.
OvertakeBatches(bs, b, bt, applied) ==
  [c \in DOMAIN bs |->
     IF c = b THEN bs[c]
     ELSE [bs[c] EXCEPT !.after = IF bs[b].st = "open" THEN @ ELSE @ \ {b},
                        !.overtaken = @ \/ (applied /\ c \in bt.after /\ bs[c].st = "open")]]

(***************************************************************************)
(* Login page.                                                             *)
(***************************************************************************)
LandingInitial == [isLoading |-> FALSE, error |-> ""]

LoginFailed == "Login fejlede. Tjek din email og adgangskode."
NetworkError == "Netvaerksfejl. Proev igen."

\* The error bodies auth/login answers with: with and without a detail.
LoginDetails == {Undefined, "Invalid access code"}

(***************************************************************************)
(* The remote service's interviews.  A segment's edited_text and tags are  *)
(* optional.                                                               *)
(***************************************************************************)
InterviewIds == {"int-1", "int-2"}

NoTags == [sentiment |-> Undefined, theme |-> Undefined, notes |-> Undefined]

Segment(id, text, edited, editable) ==
  [id |-> id, text |-> text, edited_text |-> edited, editable |-> editable, tags |-> NoTags]

\* What the service holds when the page is loaded: int-1 with two editable
\* segments, one never edited and one edited to the empty string; int-2 with
\* one segment that is not editable.
ServerInitial ==
  [i \in InterviewIds |->
     IF i = "int-1"
     THEN <<Segment("seg-1", "Godt", Undefined, TRUE), Segment("seg-2", "Fint", "", TRUE)>>
     ELSE <<Segment("seg-1", "Hej", Undefined, FALSE)>>]

\* The body of GET interview/{id}.
InterviewDetail(sv, i) == [t |-> "data", id |-> i, segments |-> sv[i]]

\* The service's themes/available vocabulary.
ServerThemes == <<"Service">>

\* POST interview/edit and POST interview/tag as the service applies them.
ServerEdit(sv, i, sid, newText) ==
  [sv EXCEPT ![i] = [k \in DOMAIN sv[i] |->
      IF sv[i][k].id = sid THEN [sv[i][k] EXCEPT !.edited_text = newText] ELSE sv[i][k]]]

ServerTag(sv, i, sid, tg) ==
  [sv EXCEPT ![i] = [k \in DOMAIN sv[i] |->
      IF sv[i][k].id = sid THEN [sv[i][k] EXCEPT !.tags = tg] ELSE sv[i][k]]]

(***************************************************************************)
(* Transcript editor.                                                      *)
(***************************************************************************)
WidgetInitial ==
  [selectedInterview |-> Null, fullTranscript |-> JsNull, loadingTranscript |-> FALSE,
   editingSegment |-> Null, editText |-> "", availableThemes |-> <<>>]

\* user?.accessLevel?.includes('Premium') || user?.accessLevel?.includes('Admin')
isEditable(user) ==
  /\ user.accessLevel \notin {Null, Undefined}
  /\ Includes(user.accessLevel, "Premium") \/ Includes(user.accessLevel, "Admin")

\* The prop computed from the segment's flag alone.
SegmentIsEditable_FlagOnly(user, seg) == seg.editable

\* The isEditable prop a SegmentDisplay is given.
SegmentIsEditable(user, seg) == isEditable(user) /\ seg.editable

\* The segments the transcript pane renders a SegmentDisplay for.
RenderedSegments(a, w) ==
  IF DashboardView(a) /\ ~a.isLoading /\ ~w.loadingTranscript /\ w.fullTranscript.t = "data"
  THEN {w.fullTranscript.segments[k] : k \in DOMAIN w.fullTranscript.segments}
  ELSE {}

RenderedIds(a, w) == {seg.id : seg \in RenderedSegments(a, w)}

\* The text a SegmentDisplay shows in its paragraph.
DisplayText(seg) == Or(seg.edited_text, seg.text)

\* The useState initial values of a SegmentDisplay.
PanelInitial(seg) ==
  [showTagging |-> FALSE,
   selectedSentiment |-> Or(seg.tags.sentiment, ""),
   selectedTheme |-> Or(seg.tags.theme, ""),
   notes |-> Or(seg.tags.notes, "")]

\* The edit and tag buttons of a segment are rendered.
ControlsShown(a, seg) == SegmentIsEditable(a.user, seg) /\ seg.editable

\* The textarea replaces the paragraph.
TextareaShown(w, seg) == w.editingSegment = seg.id

\* The tagging panel is rendered.
PanelShown(a, p, seg) == p[seg.id].showTagging /\ SegmentIsEditable(a.user, seg)

\* startEdit that takes the slot and leaves the buffer as it was.
startEdit_KeepsBuffer(w, seg) == [w EXCEPT !.editingSegment = seg.id]

startEdit(w, seg) ==
  [w EXCEPT !.editingSegment = seg.id, !.editText = DisplayText(seg)]

\* A cancelEdit that frees the slot and keeps the buffer.
cancelEdit_KeepsBuffer(w) == [w EXCEPT !.editingSegment = Null]

cancelEdit(w) == [w EXCEPT !.editingSegment = Null, !.editText = ""]

\* Requests of the widget in flight.  then: what the caller of
\* fetchFullTranscript does when it returns; live: the widget that issued
\* the request is still mounted, so its setters still have an effect;
\* overtaken: the response to a fetchFullTranscript call made later has
\* already been applied.
Task(kind, i, sid, text, tg, then) ==
  [kind |-> kind, live |-> TRUE, interview |-> i, segment |-> sid, text |-> text,
   tags |-> tg, then |-> then, overtaken |-> FALSE]

AvailTask == Task("avail", Null, Null, "", NoTags, "none")
DetailTask(i, then) == Task("detail", i, Null, "", NoTags, then)

Request(tk) ==
  CASE tk.kind = "avail"  -> [endpoint |-> "themes/available", method |-> "GET"]
    [] tk.kind = "detail" -> [endpoint |-> "interview/" \o tk.interview, method |-> "GET"]
    [] tk.kind = "edit"   -> [endpoint |-> "interview/edit", method |-> "POST",
                              interview_id |-> tk.interview, segment_id |-> tk.segment,
                              edited_text |-> tk.text]
    [] tk.kind = "tag"    -> [endpoint |-> "interview/tag", method |-> "POST",
                              interview_id |-> tk.interview, segment_id |-> tk.segment,
                              sentiment |-> tk.tags.sentiment, theme |-> tk.tags.theme,
                              notes |-> tk.tags.notes]

BatchRequests == [k \in 1..Len(BatchEndpoints) |-> [endpoint |-> BatchEndpoints[k], method |-> "GET"]]

\* fetchFullTranscript up to its await.
fetchFullTranscript(w, live) == IF live THEN [w EXCEPT !.loadingTranscript = TRUE] ELSE w

\* fetchFullTranscript after its await: try, catch and finally.
fetchFullTranscriptDone(w, tk, outcome, sv) ==
  LET r == apiCall(outcome)
      w1 == CASE r = "data" -> [w EXCEPT !.fullTranscript = InterviewDetail(sv, tk.interview),
                                         !.selectedInterview = tk.interview]
              [] r = "undefined" -> [w EXCEPT !.fullTranscript = JsUndefined,
                                              !.selectedInterview = tk.interview]
              [] OTHER -> w
  IN [w1 EXCEPT !.loadingTranscript = FALSE]

\* handleEditSegment after fetchFullTranscript has returned.
AfterRefetch(w, tk) == IF tk.then = "edit" THEN [w EXCEPT !.editingSegment = Null] ELSE w

WithoutTask(ts, k) == SubSeq(ts, 1, k - 1) \o SubSeq(ts, k + 1, Len(ts))

\* The fetchFullTranscript calls older than ts[k], once the response to
\* ts[k] has been applied.
Overtake(ts, k, outcome) ==
  [j \in DOMAIN ts |->
     IF j < k /\ ts[j].kind = "detail" /\ ts[k].live /\ apiCall(outcome) # "throw"
     THEN [ts[j] EXCEPT !.overtaken = TRUE] ELSE ts[j]]

Orphaned(ts) == [k \in DOMAIN ts |-> [ts[k] EXCEPT !.live = FALSE]]

\* The mount effect of the widget: the dashboard, once rendered, has the
\* themes/available request in flight.
MountTasks(a) == IF DashboardView(a) THEN <<AvailTask>> ELSE <<>>

\* handleEditSegment and handleTagSegment reach fetchFullTranscript unless apiCall threw.
Refetches(outcome) == apiCall(outcome) # "throw"

SegmentById(w, sid) ==
  CHOOSE seg \in {w.fullTranscript.segments[k] : k \in DOMAIN w.fullTranscript.segments} :
    seg.id = sid

\* What the user types into the textarea, and picks in the tagging panel.
EditTexts == {"Bedre"}
Sentiments == {"positive"}
NoteTexts == {"vigtigt"}

(***************************************************************************)
(* Chat widget (ChatWidget of the earlier App.js).                         *)
(***************************************************************************)
Welcome == "Hej! Spoerg mig om interview data, temaer, karakterer eller sentiment."
Apology == "Beklager, jeg kunne ikke behandle dit spoergsmaal."

Message(type, content) == [type |-> type, content |-> content]

ChatInitial == [messages |-> <<Message("bot", Welcome)>>, input |-> "", isLoading |-> FALSE]

\* String.prototype.trim: the white space and the line terminators at both
\* ends are removed.  The set holds those of them a string of this module
\* can contain: space, tab, line feed, form feed, carriage return,
\* U+000B, U+00A0, U+1680 and U+FEFF.
WhiteSpace == {" ", "\t", "\n", "\f", "\r", "", " ", " ", "﻿"}

RECURSIVE TrimStart(_)
TrimStart(s) ==
  IF Len(s) > 0 /\ SubSeq(s, 1, 1) \in WhiteSpace THEN TrimStart(SubSeq(s, 2, Len(s))) ELSE s

RECURSIVE TrimEnd(_)
TrimEnd(s) ==
  IF Len(s) > 0 /\ SubSeq(s, Len(s), Len(s)) \in WhiteSpace THEN TrimEnd(SubSeq(s, 1, Len(s) - 1))
  ELSE s

Trim(s) == TrimEnd(TrimStart(s))

\* What the user may have in the input field.
ChatInputs == {"", "  ", "\r\n", "Hvad?", " Hvor mange? "}

\* The answer field of the body the chat endpoint returns.
Answer(question) == "Svar: " \o question

UserMessages(c) == {n \in DOMAIN c.messages : c.messages[n].type = "user"}

\* handleSendMessage up to its await.
handleSendMessage(c, calls) ==
  IF Trim(c.input) = "" THEN [chat |-> c, calls |-> calls]
  ELSE [chat |-> [c EXCEPT !.messages = Append(@, Message("user", c.input)),
                           !.isLoading = TRUE],
        calls |-> Append(calls, [question |-> c.input, live |-> TRUE])]

\* The updater handleSendMessage passes to setMessages reads
\* response.answer when React runs it, at the next render: after a 401
\* apiCall has returned undefined, and the render throws.
RenderThrows(call, outcome) == call.live /\ apiCall(outcome) = "undefined"

\* handleSendMessage after its await: the answer, or the apology of the
\* catch block when apiCall threw; after a 401 nothing throws inside the
\* try and the updater is queued.  Then the input is emptied and the
\* loading flag cleared.
handleSendMessageDone(c, call, outcome) ==
  IF ~call.live THEN c
  ELSE [c EXCEPT !.messages = CASE apiCall(outcome) = "data"
                                     -> Append(@, Message("bot", Answer(call.question)))
                                [] apiCall(outcome) = "throw"
                                     -> Append(@, Message("bot", Apology))
                                [] OTHER -> @,
                 !.input = "",
                 !.isLoading = FALSE]

\* The requests of an unmounted ChatWidget: their setters do nothing.
OrphanedCalls(calls) == [k \in DOMAIN calls |-> [calls[k] EXCEPT !.live = FALSE]]

WithoutCall(calls, k) == [j \in 1..(Len(calls) - 1) |-> IF j < k THEN calls[j] ELSE calls[j + 1]]

(***************************************************************************)
(* One handler run.  n holds the values the handler has set; rendering     *)
(* then mounts and unmounts the components that depend on them.            *)
(***************************************************************************)
Cur ==
  [app |-> app, batches |-> batches, storage |-> storage, reload |-> FALSE,
   landing |-> landing, widget |-> widget, panels |-> panels, tasks |-> tasks,
   server |-> server, saves |-> saves, chat |-> chat, chatCalls |-> chatCalls,
   hasError |-> hasError, batchCalls |-> batchCalls]

Render(n) ==
  LET h == DashboardView(app) /\ DashboardView(n.app) /\ n.hasError
      kept == ChildrenShown(app, hasError) /\ ChildrenShown(n.app, h)
      w == IF kept THEN n.widget ELSE WidgetInitial
      ts == IF kept THEN n.tasks
            ELSE Orphaned(n.tasks) \o (IF h THEN <<>> ELSE MountTasks(n.app))
  IN [n EXCEPT
        !.hasError = h,
        !.widget = w,
        !.tasks = ts,
        !.chat = IF kept THEN n.chat ELSE ChatInitial,
        !.chatCalls = IF kept THEN n.chatCalls ELSE OrphanedCalls(n.chatCalls),
        !.panels = [sid \in RenderedIds(n.app, w) |->
                      IF sid \in DOMAIN n.panels THEN n.panels[sid]
                      ELSE PanelInitial(SegmentById(w, sid))],
        !.landing = IF LandingView(app) /\ LandingView(n.app) THEN n.landing
                    ELSE LandingInitial]

Commit(n) ==
  \E r \in {Render(n)} :
     /\ Len(r.tasks) <= MaxTasks
     /\ reloadPending => sinceReload < MaxSinceReload
     /\ sinceReload' = IF reloadPending THEN sinceReload + 1 ELSE 0
     /\ app' = r.app
     /\ batches' = r.batches
     /\ storage' = r.storage
     /\ reloadPending' = (reloadPending \/ r.reload)
     /\ landing' = r.landing
     /\ widget' = r.widget
     /\ panels' = r.panels
     /\ tasks' = r.tasks
     /\ server' = r.server
     /\ saves' = r.saves
     /\ chat' = r.chat
     /\ chatCalls' = r.chatCalls
     /\ hasError' = r.hasError
     /\ batchCalls' = r.batchCalls
     /\ apiRuns' = apiRuns
     /\ lastCall' = lastCall

\* The page as the browser has just loaded it.
PageLoadIn(st, sv, n) ==
  LET m == MountIn(st, n)
  IN /\ storage = st
     /\ app = m.app
     /\ batches = m.batches
     /\ landing = LandingInitial
     /\ reloadPending = FALSE
     /\ sinceReload = 0
     /\ widget = WidgetInitial
     /\ panels = [sid \in {} |-> PanelInitial(Segment(sid, "", Undefined, FALSE))]
     /\ tasks = MountTasks(m.app)
     /\ server = sv
     /\ saves = 0
     /\ chat = ChatInitial
     /\ chatCalls = <<>>
     /\ hasError = FALSE
     /\ batchCalls = Started(m.batches)
     /\ apiRuns = <<>>
     /\ lastCall = NoCall

PageLoad(st, sv) == PageLoadIn(st, sv, MaxBatches)

(***************************************************************************)
(* Actions of the coordinator and the login page.                          *)
(***************************************************************************)
Submit ==
  /\ LandingView(app) /\ ~landing.isLoading
  /\ Commit([Cur EXCEPT !.landing = [isLoading |-> TRUE, error |-> ""]])

\* response.ok: the three keys are stored, then onLogin runs and the effect follows.
LoginOk(data) ==
  /\ LandingView(app) /\ landing.isLoading
  /\ HasFree(batches)
  /\ batchCalls < MaxCalls
  /\ LET st == StoreLogin(storage, data)
         f == AuthEffect(handleLogin(app, data), batches, st, app.isAuthenticated)
     IN Commit([Cur EXCEPT !.storage = st, !.app = f.app, !.batches = f.batches,
                           !.batchCalls = @ + 1])

\* !response.ok (401 included): the detail of the body, or the default text.
LoginRejected(outcome, detail) ==
  /\ LandingView(app) /\ landing.isLoading
  /\ Commit([Cur EXCEPT !.landing = [isLoading |-> FALSE, error |-> Or(detail, LoginFailed)]])

\* The catch block without the finally: the form stays disabled.
LoginNetworkError_NoFinally ==
  /\ LandingView(app) /\ landing.isLoading
  /\ Commit([Cur EXCEPT !.landing = [isLoading |-> TRUE, error |-> NetworkError]])

\* fetch or response.json() threw.
LoginNetworkError ==
  /\ LandingView(app) /\ landing.isLoading
  /\ Commit([Cur EXCEPT !.landing = [isLoading |-> FALSE, error |-> NetworkError]])

Logout ==
  /\ ChildrenShown(app, hasError)
  /\ LET st == clearStoredAuth(storage)
         f == AuthEffect(handleLogout(app), batches, st, app.isAuthenticated)
     IN Commit([Cur EXCEPT !.storage = st, !.app = f.app, !.batches = f.batches])

StartBatch(showLoading) ==
  /\ HasFree(batches)
  /\ batchCalls < MaxCalls
  /\ LET f == fetchAllData(app, batches, storage, showLoading)
     IN Commit([Cur EXCEPT !.app = f.app, !.batches = f.batches, !.batchCalls = @ + 1])

\* The Opdater button of the header, disabled while loading.
ManualRefresh == ChildrenShown(app, hasError) /\ ~app.isLoading /\ StartBatch(TRUE)

\* The retry button of the error message, in the error view and in the banner.
handleRetry == app.isAuthenticated /\ Truthy(app.error) /\ ~hasError /\ StartBatch(TRUE)

\* The 300 second interval.
TimerFire == app.interval > 0 /\ StartBatch(FALSE)

BatchRespond(b, e, outcome) ==
  /\ batches[b].res[e] = "pending"
  /\ LET r == PromiseAll(app, batches[b], b, e, outcome)
     IN Commit([Cur EXCEPT !.app = r.app,
                           !.batches = OvertakeBatches([batches EXCEPT ![b] = r.batch], b, batches[b],
                                                       Applied(batches[b], e, outcome)),
                           !.storage = apiCallStorage(storage, outcome),
                           !.reload = apiCallReload(outcome)])

\* The browser replaces the page: nothing in memory survives, requests in
\* flight are dropped, the new page mounts from localStorage.
Reload ==
  /\ reloadPending
  /\ storage' = storage
  /\ app' = MountIn(storage, Len(batches)).app
  /\ batches' = MountIn(storage, Len(batches)).batches
  /\ landing' = LandingInitial
  /\ reloadPending' = FALSE
  /\ sinceReload' = 0
  /\ widget' = WidgetInitial
  /\ panels' = [sid \in {} |-> PanelInitial(Segment(sid, "", Undefined, FALSE))]
  /\ tasks' = MountTasks(MountIn(storage, Len(batches)).app)
  /\ server' = server
  /\ saves' = 0
  /\ chat' = ChatInitial
  /\ chatCalls' = <<>>
  /\ hasError' = FALSE
  /\ batchCalls' = Started(MountIn(storage, Len(batches)).batches)
  /\ apiRuns' = <<>>
  /\ lastCall' = lastCall

(***************************************************************************)
(* Actions of the transcript editor.                                       *)
(***************************************************************************)
\* A click on an interview of the list.
SelectInterview(i) ==
  /\ ChildrenShown(app, hasError) /\ ~app.isLoading /\ app.interviews.t = "data"
  /\ Commit([Cur EXCEPT !.widget = fetchFullTranscript(widget, TRUE),
                        !.tasks = Append(tasks, DetailTask(i, "none"))])

StartEdit(seg) ==
  /\ seg \in RenderedSegments(app, widget)
  /\ ControlsShown(app, seg) /\ ~TextareaShown(widget, seg)
  /\ Commit([Cur EXCEPT !.widget = startEdit(widget, seg)])

\* onChange of the textarea.
TypeEdit(seg, v) ==
  /\ seg \in RenderedSegments(app, widget)
  /\ TextareaShown(widget, seg)
  /\ Commit([Cur EXCEPT !.widget = [widget EXCEPT !.editText = v]])

CancelEdit(seg) ==
  /\ seg \in RenderedSegments(app, widget)
  /\ ControlsShown(app, seg) /\ TextareaShown(widget, seg)
  /\ Commit([Cur EXCEPT !.widget = cancelEdit(widget)])

\* saveEdit: handleEditSegment up to its await.
SaveEdit(seg) ==
  /\ seg \in RenderedSegments(app, widget)
  /\ ControlsShown(app, seg) /\ TextareaShown(widget, seg)
  /\ saves < MaxSaves
  /\ LET tk == Task("edit", widget.selectedInterview, seg.id, widget.editText, NoTags, "none")
     IN IF isEditable(app.user)
        THEN Commit([Cur EXCEPT !.tasks = Append(tasks, tk), !.saves = @ + 1])
        ELSE Commit(Cur)

ToggleTagging(seg) ==
  /\ seg \in RenderedSegments(app, widget)
  /\ ControlsShown(app, seg) /\ ~TextareaShown(widget, seg)
  /\ Commit([Cur EXCEPT !.panels[seg.id].showTagging = ~@])

\* The tagging forms, other than that of segment sid, that hold a value in
\* one of their fields.
FilledForms(a, w, p, sid) ==
  {seg \in RenderedSegments(a, w) :
     /\ seg.id # sid
     /\ \/ p[seg.id].selectedSentiment # ""
        \/ p[seg.id].selectedTheme # ""
        \/ p[seg.id].notes # ""}

SetSentiment(seg, v) ==
  /\ seg \in RenderedSegments(app, widget)
  /\ PanelShown(app, panels, seg)
  /\ saves < MaxSaves
  /\ Cardinality(FilledForms(app, widget, panels, seg.id)) < MaxForms
  /\ Commit([Cur EXCEPT !.panels[seg.id].selectedSentiment = v])

\* The options of the select Tema: none, or one of availableThemes.
ThemeOptions(w) == {""} \cup {w.availableThemes[n] : n \in DOMAIN w.availableThemes}

SetTheme(seg, v) ==
  /\ seg \in RenderedSegments(app, widget)
  /\ PanelShown(app, panels, seg)
  /\ v \in ThemeOptions(widget)
  /\ saves < MaxSaves
  /\ Cardinality(FilledForms(app, widget, panels, seg.id)) < MaxForms
  /\ Commit([Cur EXCEPT !.panels[seg.id].selectedTheme = v])

SetNotes(seg, v) ==
  /\ seg \in RenderedSegments(app, widget)
  /\ PanelShown(app, panels, seg)
  /\ saves < MaxSaves
  /\ Cardinality(FilledForms(app, widget, panels, seg.id)) < MaxForms
  /\ Commit([Cur EXCEPT !.panels[seg.id].notes = v])

CancelTagging(seg) ==
  /\ seg \in RenderedSegments(app, widget)
  /\ PanelShown(app, panels, seg)
  /\ Commit([Cur EXCEPT !.panels[seg.id].showTagging = FALSE])

\* saveTags: handleTagSegment up to its await, then setShowTagging(false).
SaveTags(seg) ==
  /\ seg \in RenderedSegments(app, widget)
  /\ PanelShown(app, panels, seg)
  /\ saves < MaxSaves
  /\ LET p == panels[seg.id]
         tk == Task("tag", widget.selectedInterview, seg.id, "",
                    [sentiment |-> p.selectedSentiment, theme |-> p.selectedTheme,
                     notes |-> p.notes], "none")
     IN IF isEditable(app.user)
        THEN Commit([Cur EXCEPT !.tasks = Append(tasks, tk), !.saves = @ + 1,
                                !.panels[seg.id].showTagging = FALSE])
        ELSE Commit([Cur EXCEPT !.panels[seg.id].showTagging = FALSE])

\* The response to themes/available.
AvailRespond(k, outcome) ==
  /\ k \in DOMAIN tasks /\ tasks[k].kind = "avail"
  /\ Commit([Cur EXCEPT
       !.widget = IF tasks[k].live /\ apiCall(outcome) = "data"
                  THEN [widget EXCEPT !.availableThemes = ServerThemes] ELSE widget,
       !.tasks = WithoutTask(tasks, k),
       !.storage = apiCallStorage(storage, outcome), !.reload = apiCallReload(outcome)])

\* The response to GET interview/{id}, and the caller's continuation.
DetailRespond(k, outcome) ==
  /\ k \in DOMAIN tasks /\ tasks[k].kind = "detail"
  /\ Commit([Cur EXCEPT
       !.widget = IF tasks[k].live
                  THEN AfterRefetch(fetchFullTranscriptDone(widget, tasks[k], outcome, server),
                                    tasks[k])
                  ELSE widget,
       !.tasks = WithoutTask(Overtake(tasks, k, outcome), k),
       !.storage = apiCallStorage(storage, outcome), !.reload = apiCallReload(outcome)])

\* The response to POST interview/edit or POST interview/tag, and the
\* rest of handleEditSegment / handleTagSegment up to the next await.
SaveRespond(k, outcome) ==
  /\ k \in DOMAIN tasks /\ tasks[k].kind \in {"edit", "tag"}
  /\ LET tk == tasks[k]
         next == [DetailTask(tk.interview, tk.kind) EXCEPT !.live = tk.live,
                                                           !.segment = tk.segment]
         sv == IF outcome # "ok" THEN server
               ELSE IF tk.kind = "edit" THEN ServerEdit(server, tk.interview, tk.segment, tk.text)
               ELSE ServerTag(server, tk.interview, tk.segment, tk.tags)
     IN IF Refetches(outcome)
        THEN Commit([Cur EXCEPT
               !.widget = fetchFullTranscript(widget, tk.live),
               !.tasks = Append(WithoutTask(tasks, k), next),
               !.server = sv,
               !.storage = apiCallStorage(storage, outcome), !.reload = apiCallReload(outcome)])
        ELSE Commit([Cur EXCEPT
               !.tasks = WithoutTask(tasks, k),
               !.storage = apiCallStorage(storage, outcome), !.reload = apiCallReload(outcome)])

(***************************************************************************)
(* Specifications.                                                         *)
(*                                                                         *)
(* Spec is the coordinator with the login page: the page is loaded with    *)
(* or without a stored session.  The requests of the dashboard's widgets   *)
(* are left to EditorSpec.                                                 *)
(*                                                                         *)
(* ApiSpec is apiCall on its own: runs of apiCall against every response,  *)
(* with and without a stored session.                                      *)
(*                                                                         *)
(* EditorSpec is one lifetime of the transcript editor: it starts when     *)
(* the dashboard has loaded its first batch and the widget has just been   *)
(* mounted (its themes/available request is in flight), and lasts until    *)
(* logout or reload unmount it.                                            *)
(***************************************************************************)
\* The session a page load may find in localStorage.
StoredSessions == {StoreLogin(EmptyStorage, d) : d \in {x \in LoginResponses : x.access_token = "tok1"}}

Init ==
  \E st \in {EmptyStorage} \cup StoredSessions :
    PageLoad(st, ServerInitial)

SessionNext ==
  \/ Submit
  \/ \E d \in LoginResponses : LoginOk(d)
  \/ \E o \in {"non2xx", "401"}, d \in LoginDetails : LoginRejected(o, d)
  \/ LoginNetworkError
  \/ Logout
  \/ Reload

BatchNext ==
  \/ ManualRefresh
  \/ handleRetry
  \/ TimerFire
  \/ \E b \in 1..MaxBatches, e \in EndpointSet, o \in Outcomes : BatchRespond(b, e, o)
  \/ \E k \in 1..MaxTasks, o \in Outcomes : AvailRespond(k, o)

Next == SessionNext \/ BatchNext

Spec == Init /\ [][Next]_vars

\* The access levels a session may carry.
AccessLevels == {"Standard", "Premium", "Admin"}

EditorSessions ==
  {[access_token |-> "tok1", email |-> "a@b.dk", access_level |-> l] : l \in AccessLevels}

EditorInit ==
  \E d \in EditorSessions :
    /\ storage = StoreLogin(EmptyStorage, d)
    /\ app = [isAuthenticated |-> TRUE,
              user |-> [email |-> d.email, accessLevel |-> d.access_level],
              overview |-> ResponseData(1, "overview"), themes |-> ResponseData(1, "themes"),
              ratings |-> ResponseData(1, "ratings"),
              interviews |-> ResponseData(1, "interviews"),
              isLoading |-> FALSE, error |-> Null, interval |-> 1]
    /\ batches = [b \in 1..MaxBatches |-> FreeBatch]
    /\ landing = LandingInitial
    /\ reloadPending = FALSE
    /\ sinceReload = 0
    /\ widget = WidgetInitial
    /\ panels = [sid \in {} |-> PanelInitial(Segment(sid, "", Undefined, FALSE))]
    /\ tasks = <<AvailTask>>
    /\ server = ServerInitial
    /\ saves = 0
    /\ chat = ChatInitial
    /\ chatCalls = <<>>
    /\ hasError = FALSE
    /\ batchCalls = 1
    /\ apiRuns = <<>>
    /\ lastCall = NoCall

EditorNext ==
  \/ \E i \in InterviewIds : SelectInterview(i)
  \/ \E seg \in RenderedSegments(app, widget) : StartEdit(seg)
  \/ \E seg \in RenderedSegments(app, widget), v \in EditTexts : TypeEdit(seg, v)
  \/ \E seg \in RenderedSegments(app, widget) : CancelEdit(seg)
  \/ \E seg \in RenderedSegments(app, widget) : SaveEdit(seg)
  \/ \E seg \in RenderedSegments(app, widget) : ToggleTagging(seg)
  \/ \E seg \in RenderedSegments(app, widget), v \in Sentiments : SetSentiment(seg, v)
  \/ \E seg \in RenderedSegments(app, widget), v \in ThemeOptions(widget) \ {""} : SetTheme(seg, v)
  \/ \E seg \in RenderedSegments(app, widget), v \in NoteTexts : SetNotes(seg, v)
  \/ \E seg \in RenderedSegments(app, widget) : CancelTagging(seg)
  \/ \E seg \in RenderedSegments(app, widget) : SaveTags(seg)
  \/ \E k \in 1..MaxTasks, o \in Outcomes : AvailRespond(k, o)
  \/ \E k \in 1..MaxTasks, o \in Outcomes : DetailRespond(k, o)
  \/ \E k \in 1..MaxTasks, o \in Outcomes : SaveRespond(k, o)
  \/ Logout
  \/ Reload

EditorSpec == EditorInit /\ [][EditorNext]_vars

\* A run of apiCall starts: it reads the token and sends its request.
ApiSend(endpoint) ==
  /\ Len(apiRuns) < MaxRuns
  /\ apiRuns' = Append(apiRuns, apiCallSent(storage, endpoint))
  /\ UNCHANGED <<storage, app, batches, landing, reloadPending, sinceReload, widget, panels,
                 tasks, server, saves, chat, chatCalls, hasError, batchCalls, lastCall>>

\* The response to run k of apiCall arrives; on a 401 the run clears the
\* session and asks for the reload.
ApiCall(k, resp) ==
  /\ k \in DOMAIN apiRuns
  /\ lastCall' = apiCallRun(apiRuns[k], resp)
  /\ apiRuns' = [j \in 1..(Len(apiRuns) - 1) |-> IF j < k THEN apiRuns[j] ELSE apiRuns[j + 1]]
  /\ storage' = apiCallStorage(storage, OutcomeOf(resp))
  /\ reloadPending' = (reloadPending \/ apiCallReload(OutcomeOf(resp)))
  /\ UNCHANGED <<app, batches, landing, sinceReload, widget, panels, tasks, server, saves, chat, chatCalls,
                 hasError, batchCalls>>

ApiNext ==
  \/ \E endpoint \in ApiEndpoints : ApiSend(endpoint)
  \/ \E k \in 1..MaxRuns, resp \in Responses : ApiCall(k, resp)
  \/ Reload

ApiSpec == Init /\ [][ApiNext]_vars

\* OverlapSpec is the dashboard with room for two fetchAllData calls at
\* once: the page loads with a stored session, and refreshes, retries and
\* timer ticks start calls while earlier ones are waiting; a 401 ends the
\* page.
OverlapInit == \E st \in StoredSessions : PageLoadIn(st, ServerInitial, MaxOverlap)

OverlapNext ==
  \/ ManualRefresh
  \/ handleRetry
  \/ TimerFire
  \/ \E b \in 1..MaxOverlap, e \in EndpointSet, o \in Outcomes : BatchRespond(b, e, o)
  \/ \E k \in 1..MaxTasks, o \in Outcomes : AvailRespond(k, o)
  \/ Reload

OverlapSpec == OverlapInit /\ [][OverlapNext]_vars

\* ReloginSpec is the page over two sessions: the user logs out and logs
\* in again, as the same user or as another, while the requests of the
\* first session are answered and refreshes, retries and timer ticks
\* start further calls.
ReloginNext ==
  \/ SessionNext
  \/ ManualRefresh
  \/ handleRetry
  \/ TimerFire
  \/ \E b \in 1..MaxOverlap, e \in EndpointSet, o \in Outcomes : BatchRespond(b, e, o)
  \/ \E k \in 1..MaxTasks, o \in Outcomes : AvailRespond(k, o)

ReloginSpec == OverlapInit /\ [][ReloginNext]_vars

(***************************************************************************)
(* The transcript editor's claims, checked under EditorSpec.               *)
(***************************************************************************)
\* The segments in Editing: the textarea with the buffer replaces their text.
EditingSegments == {seg \in RenderedSegments(app, widget) : TextareaShown(widget, seg)}

\* The access level contains 'Premium' or 'Admin'.
Privileged(user) ==
  /\ user.accessLevel \notin {Null, Undefined}
  /\ \E w \in {"Premium", "Admin"} : Includes(user.accessLevel, w)

SaveTasks(ts) == {k \in DOMAIN ts : ts[k].kind \in {"edit", "tag"}}

\* C1: at most one segment of the open transcript is in Editing, and
\* starting an edit on segment B while segment A is in Editing leaves B in
\* Editing and A in Viewing, with B's displayed text in the buffer and no
\* request issued.
C1_ExclusiveEdit ==
  [][/\ Cardinality(EditingSegments') <= 1
     /\ \A a \in RenderedSegments(app, widget), b \in RenderedSegments(app, widget) :
          (a # b /\ a \in EditingSegments /\ StartEdit(b))
            => /\ EditingSegments' = {b}
               /\ widget'.editText = (IF Truthy(b.edited_text) THEN b.edited_text ELSE b.text)
               /\ tasks' = tasks]_vars

\* C1 witness: seg-2 is in Editing with its displayed text in the buffer,
\* next to seg-1, which shows its edit button again.
C1_Witness ==
  \E a \in RenderedSegments(app, widget), b \in EditingSegments :
    /\ a.id = "seg-1" /\ b.id = "seg-2"
    /\ ControlsShown(app, a)
    /\ widget.editText = "Fint"

\* C2: for a user whose access level contains neither 'Premium' nor
\* 'Admin' no segment is in Editing, no tagging panel is open, and no step
\* issues an interview/edit or interview/tag request.
C2_Unprivileged ==
  [][~Privileged(app.user)
       => /\ EditingSegments' = {}
          /\ \A seg \in RenderedSegments(app', widget') : ~PanelShown(app', panels', seg)
          /\ Cardinality(SaveTasks(tasks')) <= Cardinality(SaveTasks(tasks))
          /\ saves' <= saves]_vars

\* C2 witness: a Standard user looks at a transcript with editable segments.
C2_Witness ==
  /\ app.user.accessLevel = "Standard"
  /\ \E seg \in RenderedSegments(app, widget) : seg.editable

\* C3: a segment is in Editing only if its editable flag is true and the
\* user is Premium/Admin, also after a re-fetch or after another interview
\* was selected while the edit slot is occupied.
C3_EditingOnlyEditable ==
  \A seg \in EditingSegments : seg.editable /\ Privileged(app.user)

\* C4: a successful edit or tag save is followed by exactly one GET
\* interview/{id} with the id of the POST, issued when the response has
\* arrived; a save that fails issues no re-fetch.
C4_RefetchAfterSave ==
  [][\A k \in 1..MaxTasks, o \in Outcomes :
       SaveRespond(k, o)
         => IF o = "ok"
            THEN /\ Len(tasks') = Len(tasks)
                 /\ SubSeq(tasks', 1, Len(tasks) - 1) = WithoutTask(tasks, k)
                 /\ Request(tasks'[Len(tasks')]).method = "GET"
                 /\ Request(tasks'[Len(tasks')]).endpoint
                      = "interview/" \o Request(tasks[k]).interview_id
            ELSE tasks' = WithoutTask(tasks, k)]_vars

\* C5: a segment in Viewing shows edited_text whenever edited_text is
\* present, the empty string included, and text otherwise.
C5_DisplayedText ==
  \A seg \in RenderedSegments(app, widget) :
    ~TextareaShown(widget, seg)
      => DisplayText(seg) = (IF seg.edited_text \notin {Undefined, Null}
                             THEN seg.edited_text ELSE seg.text)

(***************************************************************************)
(* The session's and the coordinator's claims, checked under Spec.         *)
(***************************************************************************)
KeysPresent(st) == {k \in DOMAIN st : st[k] # Null}

Pending(bt) == {e \in EndpointSet : bt.res[e] = "pending"}

DashboardData(a) == [e \in EndpointSet |-> a[e]]

\* C6: a 401 response to an API call removes all three durable keys, and
\* the reload it forces ends in the logged-out view with no session stored.
C6_Unauthorized ==
  [][/\ \A b \in 1..MaxBatches, e \in EndpointSet :
          BatchRespond(b, e, "401") => storage' = EmptyStorage /\ reloadPending'
     /\ Reload => LandingView(app') /\ storage' = EmptyStorage]_vars

\* C7: access_token, user_email and access_level are all present or all absent.
C7_KeysTogether == KeysPresent(storage) \in {{}, DOMAIN storage}

\* C7 witness: a 401 has removed the keys of the session that the second
\* account logged in with.
C7_Witness ==
  /\ storage = EmptyStorage /\ reloadPending
  /\ app.isAuthenticated /\ app.user.email = "c@d.dk"

\* C8: a successful login stores the token, the email and the access level
\* of the response, and issues exactly one batch of the four requests.
C8_LoginStartsBatch ==
  [][\A d \in LoginResponses :
       LoginOk(d)
         => /\ storage' = [access_token |-> d.access_token, user_email |-> d.email,
                           access_level |-> d.access_level]
            /\ \E b \in 1..MaxBatches :
                 /\ batches[b].st = "free" /\ batches'[b].st = "open"
                 /\ Pending(batches'[b]) = {"overview", "themes", "ratings", "interviews"}
                 /\ batches'[b].token = d.access_token
                 /\ \A c \in 1..MaxBatches : c # b => batches'[c] = batches[c]]_vars

\* C8 witness: the second account has logged in, its session is stored and
\* the four requests of its batch are in flight.
C8_Witness ==
  /\ storage.access_token = "tok2" /\ app.isAuthenticated /\ ~reloadPending
  /\ \E b \in 1..MaxBatches :
       batches[b].st = "open" /\ batches[b].token = "tok2" /\ Pending(batches[b]) = EndpointSet

\* C9: a response to a batch started with the loading indicator clears the
\* loading state only if none of the four requests is still in flight.
C9_LoadingUntilSettled ==
  [][\A b \in 1..MaxBatches, e \in EndpointSet, o \in Outcomes :
       (BatchRespond(b, e, o) /\ batches[b].showLoading /\ app.isLoading /\ ~app'.isLoading)
         => Pending(batches'[b]) = {}]_vars

\* C10: a response to a batch either leaves overview, themes, ratings and
\* interviews as they were or replaces all four by the responses of that batch.
C10_AllOrNothing ==
  [][\A b \in 1..MaxBatches, e \in EndpointSet, o \in Outcomes :
       BatchRespond(b, e, o)
         => \/ DashboardData(app') = DashboardData(app)
            \/ DashboardData(app') = [x \in EndpointSet |-> ResponseData(b, x)]]_vars

Failures == {"network", "non2xx"}

\* C11: a batch issued by the timer never changes the loading state, and a
\* failed request of such a batch leaves the dashboard error as it was.
C11_SilentRefresh ==
  [][/\ TimerFire => app'.isLoading = app.isLoading
     /\ \A b \in 1..MaxBatches, e \in EndpointSet, o \in Outcomes :
          (BatchRespond(b, e, o) /\ ~batches[b].showLoading)
            => /\ app'.isLoading = app.isLoading
               /\ o \in Failures => app'.error = app.error]_vars

\* C12: the first failed request of a batch started with the loading
\* indicator sets the dashboard error, a later failure of the same batch
\* sets nothing more, and retry issues one batch of all four requests.
C12_ErrorAndRetry ==
  [][/\ \A b \in 1..MaxBatches, e \in EndpointSet, o \in Failures :
          (BatchRespond(b, e, o) /\ batches[b].showLoading)
            => IF batches[b].st = "open"
               THEN app'.error = FetchError
               ELSE app' = app
     /\ handleRetry
          => \E b \in 1..MaxBatches :
               /\ batches[b].st = "free" /\ batches'[b].st = "open"
               /\ Pending(batches'[b]) = {"overview", "themes", "ratings", "interviews"}
               /\ \A c \in 1..MaxBatches : c # b => batches'[c] = batches[c]]_vars

\* C12 witness: a request of a batch started with the loading indicator
\* has failed while others of the batch are in flight, and the error is shown.
C12_Witness ==
  /\ app.isAuthenticated /\ app.error = FetchError
  /\ \E b \in 1..MaxBatches :
       batches[b].st = "done" /\ batches[b].showLoading /\ Pending(batches[b]) # {}

(***************************************************************************)
(* More of the transcript editor's claims, checked under EditorSpec.       *)
(***************************************************************************)
\* C13: cancel in Editing leaves the segment in Viewing with an empty
\* buffer, issues no request and leaves the transcript as it was.
C13_CancelEdit ==
  [][\A seg \in RenderedSegments(app, widget) :
       CancelEdit(seg)
         => /\ seg \in RenderedSegments(app', widget') /\ ~TextareaShown(widget', seg)
            /\ widget'.editText = ""
            /\ tasks' = tasks /\ saves' = saves
            /\ widget'.fullTranscript = widget.fullTranscript
            /\ server' = server]_vars

\* C13 witness: an edit was cancelled while its save was in flight: the
\* slot and the buffer are empty and the transcript is still shown.
C13_Witness ==
  /\ widget.editingSegment = Null /\ widget.editText = ""
  /\ RenderedSegments(app, widget) # {}
  /\ \E k \in DOMAIN tasks : tasks[k].kind = "edit" /\ tasks[k].live

\* C14: no segment is in Editing while its tagging panel is shown.
C14_PanelNotWhileEditing ==
  \A seg \in EditingSegments : ~PanelShown(app, panels, seg)

\* C15: save tags issues the tag request and keeps the panel open until
\* the transcript has been fetched again; cancel closes the panel, issues
\* no request and leaves the tags as they were.
C15_SaveTagsThenClose ==
  [][\A seg \in RenderedSegments(app, widget) :
       /\ SaveTags(seg)
            => /\ panels'[seg.id].showTagging
               /\ Len(tasks') = Len(tasks) + 1
               /\ Request(tasks'[Len(tasks')]).endpoint = "interview/tag"
       /\ CancelTagging(seg)
            => /\ ~panels'[seg.id].showTagging
               /\ tasks' = tasks /\ saves' = saves
               /\ widget'.fullTranscript = widget.fullTranscript
               /\ server' = server]_vars

\* C16: pressing save changes nothing of what the editor shows, and
\* neither does the failure of the save: after it the slot, the buffer,
\* the panels with their selections and the transcript are what they were
\* before save was pressed.
C16_FailedSaveKeepsState ==
  [][/\ \A seg \in RenderedSegments(app, widget) :
          (SaveEdit(seg) \/ SaveTags(seg)) => widget' = widget /\ panels' = panels
     /\ \A k \in 1..MaxTasks, o \in Failures :
          SaveRespond(k, o) => widget' = widget /\ panels' = panels]_vars

(***************************************************************************)
(* The API client's claims, checked under ApiSpec.                         *)
(***************************************************************************)
\* C17: a run of apiCall either throws or returns the decoded body of the
\* response it received.
C17_ReturnsBodyOrThrows ==
  lastCall.result # "none"
    => \/ lastCall.result = "throw"
       \/ lastCall.result = "return" /\ lastCall.value = Decoded(lastCall.body)

\* C18: for a response that is neither 2xx nor 401 apiCall throws an error
\* whose message holds the status code and the body text, has fetched
\* once, and leaves the three keys and the page as they were.
C18_Non2xxThrows ==
  [][\A k \in 1..MaxRuns, resp \in Responses :
       (ApiCall(k, resp) /\ resp.received /\ resp.status \notin 200..299
          /\ resp.status # 401)
         => /\ lastCall'.result = "throw"
            /\ Includes(lastCall'.message, ToString(resp.status))
            /\ Includes(lastCall'.message, resp.body)
            /\ lastCall'.fetches = 1
            /\ storage' = storage /\ reloadPending' = reloadPending]_vars

\* C18 witness: a run with a stored session was answered 500 and threw.
C18_Witness ==
  /\ lastCall.status = 500 /\ lastCall.body = "oops" /\ lastCall.result = "throw"
  /\ lastCall.authorization = "Bearer tok1"
  /\ storage.access_token = "tok1" /\ ~reloadPending

(***************************************************************************)
(* More of the session's claims, checked under Spec.                       *)
(***************************************************************************)
\* C19: the application is in the authenticated view only while a
\* non-empty token and a non-empty email are stored, and the page mounts
\* authenticated exactly when both are stored.
C19_AuthenticatedHasSession ==
  [][/\ app'.isAuthenticated
          => Truthy(storage'.access_token) /\ Truthy(storage'.user_email)
     /\ Reload
          => app'.isAuthenticated
               = (Truthy(storage.access_token) /\ Truthy(storage.user_email))]_vars

\* C20: a login answered with a non-2xx status or not answered ends with
\* an error on the login view and the form enabled again; it writes no
\* key, does not call onLogin and leaves the application logged out.
C20_FailedLogin ==
  [][(LoginNetworkError \/ \E o \in {"non2xx", "401"}, d \in LoginDetails : LoginRejected(o, d))
       => /\ LandingView(app') /\ Truthy(landing'.error) /\ ~landing'.isLoading
          /\ storage' = storage
          /\ app' = app /\ batches' = batches]_vars

\* C20 witness: the login view shows the default error of a rejected login,
\* with no key stored.
C20_Witness ==
  /\ LandingView(app) /\ landing.error = LoginFailed /\ ~landing.isLoading
  /\ storage = EmptyStorage

(***************************************************************************)
(* The timer's and the overlapping requests' claims.                       *)
(***************************************************************************)
\* C21: at most one refresh interval is set, one is set only while the
\* user is authenticated, and the timer issues a batch only then.
C21_TimerWhileAuthenticated ==
  [][/\ app'.interval <= 1
     /\ app'.interval > 0 => app'.isAuthenticated
     /\ TimerFire => app.isAuthenticated]_vars

\* C21 witness: the second account has logged in and out again; its batch
\* is still in flight and no interval is left.
C21_Witness ==
  /\ ~app.isAuthenticated /\ app.interval = 0 /\ storage = EmptyStorage
  /\ \E b \in 1..MaxBatches : batches[b].token = "tok2" /\ Pending(batches[b]) # {}

\* The segments the service holds for interview i.
ServerSegments(i) == {server[i][n] : n \in DOMAIN server[i]}

\* What the SegmentDisplay of seg shows as the segment's text: the
\* textarea with the edit buffer, or the paragraph.
ShownText(w, seg) == IF TextareaShown(w, seg) THEN w.editText ELSE DisplayText(seg)

\* The fields of the tagging form of seg.
ShownForm(p, seg) == [p[seg.id] EXCEPT !.showTagging = FALSE]

\* C22: when the response to a transcript fetch has been applied, the
\* rendered segments are the segments of the response and what each of
\* them displays is taken from the response alone: its text is the text the
\* service holds and an open tagging form holds the tags the service
\* holds; and fetching an interview whose transcript is already shown as
\* the service holds it leaves the rendered segments as they were.
C22_RefetchShowsServerData ==
  [][\A k \in 1..MaxTasks :
       (DetailRespond(k, "ok") /\ tasks[k].live)
         => /\ widget'.fullTranscript = InterviewDetail(server, tasks[k].interview)
            /\ RenderedSegments(app', widget') = ServerSegments(tasks[k].interview)
            /\ \A seg \in RenderedSegments(app', widget') :
                 /\ ShownText(widget', seg) = DisplayText(seg)
                 /\ PanelShown(app', panels', seg)
                      => ShownForm(panels', seg) = PanelInitial(seg)
            /\ widget.fullTranscript = InterviewDetail(server, tasks[k].interview)
                 => widget'.fullTranscript = widget.fullTranscript]_vars

\* The tagging panel of segment x is open.
PanelOpen(p, x) == x \in DOMAIN p /\ p[x].showTagging

\* The panels of the segments other than sid are open or closed as before,
\* and so is the edit slot.
OtherPanelsKept(sid) ==
  /\ widget'.editingSegment = widget.editingSegment
  /\ \A x \in DOMAIN panels \ {sid} : PanelOpen(panels', x) = PanelOpen(panels, x)

\* C23: opening, closing and saving the tagging panel of a segment, the
\* save's response and re-fetch included, leave the panels of the other
\* segments open or closed as they were, and the edit slot as it was.
C23_PanelsIndependent ==
  [][/\ \A seg \in RenderedSegments(app, widget) :
          (ToggleTagging(seg) \/ CancelTagging(seg) \/ SaveTags(seg))
            => OtherPanelsKept(seg.id)
     /\ \A k \in 1..MaxTasks, o \in Outcomes :
          (SaveRespond(k, o) /\ tasks[k].kind = "tag" /\ tasks[k].live)
            => OtherPanelsKept(tasks[k].segment)]_vars

\* C24: when the re-fetch after the edit save of segment A returns while
\* another segment B is in Editing, B stays in Editing with its buffer.
C24_SaveEndsOwnEdit ==
  [][\A k \in 1..MaxTasks, o \in Outcomes :
       (DetailRespond(k, o) /\ tasks[k].then = "edit" /\ tasks[k].live
          /\ widget.editingSegment \notin {Null, tasks[k].segment})
         => /\ widget'.editingSegment = widget.editingSegment
            /\ widget'.editText = widget.editText]_vars

\* C25: when the transcript of another interview than the one shown is
\* displayed, the edit slot is empty.
C25_SelectEmptiesSlot ==
  [][\A k \in 1..MaxTasks :
       (DetailRespond(k, "ok") /\ tasks[k].live
          /\ tasks[k].interview # widget.selectedInterview)
         => widget'.editingSegment = Null /\ EditingSegments' = {}]_vars

\* C29: the transcript loading flag is set while a transcript fetch is in
\* flight, and the response to a fetch does not replace the transcript
\* and the selection that the response to a later fetch has set.
C29_OverlappingFetches ==
  [][/\ \A j \in DOMAIN tasks' :
          (tasks'[j].kind = "detail" /\ tasks'[j].live) => widget'.loadingTranscript
     /\ \A k \in 1..MaxTasks, o \in Outcomes :
          (DetailRespond(k, o) /\ tasks[k].live /\ tasks[k].overtaken)
            => /\ widget'.fullTranscript = widget.fullTranscript
               /\ widget'.selectedInterview = widget.selectedInterview]_vars

(***************************************************************************)
(* Logout against a batch in flight, checked under Spec.                   *)
(***************************************************************************)
EmptyDashboard ==
  [overview |-> JsNull, themes |-> EmptyData, ratings |-> EmptyData, interviews |-> EmptyData]

\* C27: while nobody is logged in, the in-memory dashboard data (overview,
\* themes, ratings, interviews) is empty, also after a batch that was in
\* flight at the logout has completed.
C27_EmptyAfterLogout ==
  ~app.isAuthenticated => DashboardData(app) = EmptyDashboard

\* ChatSpec is one lifetime of the chat widget on the loaded dashboard.
ChatInit ==
  \E d \in {x \in EditorSessions : x.access_level = "Standard"} :
    /\ storage = StoreLogin(EmptyStorage, d)
    /\ app = [isAuthenticated |-> TRUE,
              user |-> [email |-> d.email, accessLevel |-> d.access_level],
              overview |-> ResponseData(1, "overview"), themes |-> ResponseData(1, "themes"),
              ratings |-> ResponseData(1, "ratings"),
              interviews |-> ResponseData(1, "interviews"),
              isLoading |-> FALSE, error |-> Null, interval |-> 1]
    /\ batches = [b \in 1..MaxBatches |-> FreeBatch]
    /\ landing = LandingInitial
    /\ reloadPending = FALSE
    /\ sinceReload = 0
    /\ widget = WidgetInitial
    /\ panels = [sid \in {} |-> PanelInitial(Segment(sid, "", Undefined, FALSE))]
    /\ tasks = <<>>
    /\ server = ServerInitial
    /\ saves = 0
    /\ chat = ChatInitial
    /\ chatCalls = <<>>
    /\ hasError = FALSE
    /\ batchCalls = 1
    /\ apiRuns = <<>>
    /\ lastCall = NoCall

\* onChange of the input field.
ChatType(v) ==
  /\ ChildrenShown(app, hasError)
  /\ v # chat.input
  /\ Commit([Cur EXCEPT !.chat = [chat EXCEPT !.input = v]])

ChatSend ==
  /\ Cardinality(UserMessages(chat)) < MaxQuestions
  /\ LET h == handleSendMessage(chat, chatCalls)
     IN Commit([Cur EXCEPT !.chat = h.chat, !.chatCalls = h.calls])

\* The Send button, disabled while isLoading.
ChatSendClick == ChildrenShown(app, hasError) /\ ~chat.isLoading /\ ChatSend

\* The Enter key in the input field.
ChatEnter == ChildrenShown(app, hasError) /\ ChatSend

ChatRespond(k, outcome) ==
  /\ k \in DOMAIN chatCalls
  /\ Commit([Cur EXCEPT !.chat = handleSendMessageDone(chat, chatCalls[k], outcome),
                        !.chatCalls = WithoutCall(chatCalls, k),
                        !.hasError = hasError \/ RenderThrows(chatCalls[k], outcome),
                        !.storage = apiCallStorage(storage, outcome),
                        !.reload = apiCallReload(outcome)])

\* The Genindlaes button of the ErrorBoundary's fallback.
BoundaryReload == hasError /\ Commit([Cur EXCEPT !.reload = TRUE])

ChatNext ==
  \/ \E v \in ChatInputs : ChatType(v)
  \/ ChatSendClick
  \/ ChatEnter
  \/ \E k \in 1..MaxQuestions, o \in Outcomes : ChatRespond(k, o)
  \/ BoundaryReload
  \/ Logout
  \/ Reload

ChatSpec == ChatInit /\ [][ChatNext]_vars

(***************************************************************************)
(* The chat widget's claim, checked under ChatSpec.                        *)
(***************************************************************************)
\* C30: at most one chat request is in flight; sending a non-empty question
\* appends exactly one user message and issues one request, its response
\* appends exactly one bot message, and sending an empty or white-space
\* input issues no request and appends nothing.
C30_ChatOneAtATime ==
  [][/\ Len(chatCalls') <= 1
     /\ (ChatSendClick \/ ChatEnter)
          => IF Trim(chat.input) = ""
             THEN chat' = chat /\ chatCalls' = chatCalls
             ELSE /\ chat'.messages = Append(chat.messages, Message("user", chat.input))
                  /\ Len(chatCalls') = Len(chatCalls) + 1
     /\ \A k \in 1..MaxQuestions, o \in Outcomes :
          (ChatRespond(k, o) /\ chatCalls[k].live)
            => /\ Len(chat'.messages) = Len(chat.messages) + 1
               /\ chat'.messages[Len(chat'.messages)].type = "bot"]_vars

(***************************************************************************)
(* Overlapping fetchAllData calls, checked under OverlapSpec and           *)
(* ReloginSpec.                                                            *)
(***************************************************************************)
\* C26: the dashboard data never goes back in time: once a fetchAllData
\* call has applied its data, the responses of a call that was issued
\* earlier do not change the dashboard data any more.
C26_NeverBackInTime ==
  [][\A b \in 1..MaxOverlap, e \in EndpointSet, o \in Outcomes :
       (BatchRespond(b, e, o) /\ batches[b].overtaken)
         => DashboardData(app') = DashboardData(app)]_vars

\* C28: a 401 that answers a request sent with another token than the one
\* of the stored session leaves the three durable keys as they are.
C28_StaleUnauthorized ==
  [][\A b \in 1..MaxOverlap, e \in EndpointSet :
       (BatchRespond(b, e, "401") /\ KeysPresent(storage) # {}
          /\ batches[b].token # getStoredToken(storage))
         => storage' = storage]_vars

====
